---- MODULE Spec2Model ----
(***************************************************************************)
(* Device sessions, command batches, the scheduled fleet pass and the      *)
(* WebSocket broadcaster of the network element monitor, as the guides     *)
(* under docs/ give their code (backend/network_device.py,                 *)
(* backend/scheduler.py, backend/main.py).                                 *)
(*                                                                         *)
(* The specifications share the module, one per flow:                      *)
(*   SpecBatch      POST /api/device/execute-multiple (execute_commands)   *)
(*   SpecFleet      scheduler() driving backup_all_devices()               *)
(*   SpecBroadcast  ConnectionManager.broadcast and its registry           *)
(*   SpecDevice     one NetworkDevice object under any sequence of calls   *)
(*   SpecOnDemand   POST /api/device/quick-check beside a fleet pass       *)
(*   SpecRegistry   the registry of the ConnectionManager alone            *)
(*   SpecPage       the dashboard page of the frontend (loadData)          *)
(*   SpecAlertPanel the alert panel as a function of its prop alerts       *)
(***************************************************************************)
EXTENDS Integers, Sequences, FiniteSets, TLC

VARIABLES
    \* ---- POST /api/device/execute-multiple ----
    epPc,        \* position of the handler: idle, connect, exec, finally, done
    epCmds,      \* request.commands
    epIdx,       \* index of the command the for loop of execute_commands is at
    epDevice,    \* the NetworkDevice of the request
    epKeys,      \* keys of the results dict, in insertion order
    epVals,      \* values of the results dict
    epSendLog,   \* every connection.send_command call: command, transport before, outcome
    epResponse   \* what the handler answered: none, ok, http500

epVars == <<epPc, epCmds, epIdx, epDevice, epKeys, epVals, epSendLog, epResponse>>

VARIABLES
    \* ---- scheduler() and backup_all_devices() ----
    inventory,      \* database.network_elements: per device, status active and credentials stored
    schedPc,        \* scheduler(): top (of the while loop), pass, sleep, crashed, stopped
    passesInFlight, \* calls of backup_all_devices() that have not returned
    passCount,      \* passes triggered so far
    sinceTrigger,   \* time since the pass in flight was triggered
    sleepLeft,      \* what is left of asyncio.sleep
    ticksInFlight,  \* intervals that elapsed while a pass was in flight
    schedLog,       \* what scheduler() printed
    passPc,         \* backup_all_devices(): none, find, loop, execute, insert, done, aborted, cancelled
    elements,       \* the list the pass iterates
    idx,            \* index of the element the for loop is at
    sess,           \* per device, the latest NetworkDevice created for it
    attempted,      \* devices of this pass on which connect() was called
    passLog         \* outcomes this pass recorded: a backup stored, or a failure printed

fleetVars == <<inventory, schedPc, passesInFlight, passCount, sinceTrigger, sleepLeft,
               ticksInFlight, schedLog, passPc, elements, idx, sess, attempted, passLog>>

VARIABLES
    \* ---- ConnectionManager ----
    registry,     \* active_connections, a list
    subState,     \* per connection: new, live (reading), stalled (not reading), gone (closed)
    inbox,        \* per connection, messages its transport holds unread
    got,          \* per connection, messages its client has read
    bPc,          \* broadcast(): idle, iter (in the for loop), blocked (in an await that does not return)
    bIdx,         \* position of the list iterator
    bCur,         \* the connection whose send_json is awaited
    bMsg,         \* the message being broadcast: the number of the publish
    bOutcome,     \* how the last broadcast() ended: none, returned, raised
    bTargets,     \* connections registered when the broadcast started
    bLeftBefore,  \* connections unregistered before the broadcast started
    bRegChanged,  \* the registry changed during the broadcast
    fullHit,      \* per connection: a send_json found its transport buffer full
    unregFound    \* per connection, what its last unregistering found: none, removed, absent

bcVars == <<registry, subState, inbox, got, bPc, bIdx, bCur, bMsg, bOutcome, bTargets,
            bLeftBefore, bRegChanged, fullHit, unregFound>>

VARIABLES
    \* ---- one NetworkDevice object and its caller ----
    ndDev,      \* the NetworkDevice
    ndPc,       \* the method call in progress: idle, connecting, executing, configuring
    ndLog,      \* every call made on the underlying connection: operation, transport before
    ndLast,     \* how the last method call ended; pending while one is in progress
    ndCalls,    \* method calls made so far
    ndReport    \* what the transport did with the last configuration set: none, applied, partial

ndVars == <<ndDev, ndPc, ndLog, ndLast, ndCalls, ndReport>>

VARIABLES
    \* ---- POST /api/device/quick-check/{element_id} ----
    qcPc,        \* position of the handler: idle, lookup, try, exec, store, finally, done
    qcElem,      \* the element asked for; 0 for an id the database does not hold
    qcMade,      \* device is not None
    qcDevice,    \* the NetworkDevice of the request
    qcIdx,       \* commands execute_commands has gone through
    qcStored,    \* metrics of this request inserted into command_outputs
    qcResponse,  \* what the handler answered: none, ok, http404, http400, http500
    qcConnects   \* elements on whose device connect() was ever called

qcVars == <<qcPc, qcElem, qcMade, qcDevice, qcIdx, qcStored, qcResponse, qcConnects>>

VARIABLES
    \* ---- NetworkDevice objects of the fleet pass and of the quick check ----
    handleUse    \* pairs of a NetworkDevice object and a flow that connected, ran or closed through it

VARIABLES
    \* ---- the dashboard page, frontend/src/app/page.tsx ----
    pgElements,    \* the state elements of Home
    pgAlerts,      \* the state alerts of Home
    pgLoading,     \* the state loading of Home
    pgLoads,       \* per call of loadData: its state, what started it and its two fetches
    pgStarted,     \* calls of loadData so far
    serverVer,     \* the version of the data the backend holds
    pgResolve,     \* the resolveAlert request of handleResolve: none, flight, ok, failed
    pgResolvedOk   \* resolveAlert requests that succeeded

pgVars == <<pgElements, pgAlerts, pgLoading, pgLoads, pgStarted, serverVer, pgResolve,
            pgResolvedOk>>

VARIABLES
    \* ---- the alert panel, frontend/src/components/AlertPanel.tsx ----
    apPc,          \* props: the panel was given its props; rendered: it has returned
    apAlerts,      \* the prop alerts
    apShown,       \* the alerts the panel maps to cards, in the order of the cards
    apCount,       \* the number in the header "Active Alerts (n)"
    apEmptyMsg     \* whether "No active alerts" is rendered

apVars == <<apPc, apAlerts, apShown, apCount, apEmptyMsg>>

vars == <<epVars, fleetVars, bcVars, ndVars, qcVars, handleUse, pgVars, apVars>>

\* What the actions of one flow leave alone.
notEp == <<fleetVars, bcVars, ndVars, qcVars, handleUse, pgVars, apVars>>
notFleet == <<epVars, bcVars, ndVars, qcVars, handleUse, pgVars, apVars>>
notBc == <<epVars, fleetVars, ndVars, qcVars, unregFound, handleUse, pgVars, apVars>>
notNd == <<epVars, fleetVars, bcVars, qcVars, handleUse, pgVars, apVars>>
notQc == <<epVars, fleetVars, bcVars, ndVars, handleUse, pgVars, apVars>>
notPg == <<epVars, fleetVars, bcVars, ndVars, qcVars, handleUse, apVars>>
notAp == <<epVars, fleetVars, bcVars, ndVars, qcVars, handleUse, pgVars>>

----------------------------------------------------------------------------
(* Bounds *)

MaxBatch == 3        \* longest command batch submitted
NumCommands == 2     \* distinct command texts
NumDevices == 3      \* devices in the inventory
MaxPasses == 2       \* passes the scheduler triggers
Interval == 2        \* the sleep between passes, in time units
MaxPassTime == 3     \* longest time a pass is followed for
NumSubs == 2         \* WebSocket connections
MaxPublish == 2      \* broadcasts
BufCap == 1          \* messages a connection's transport takes while its client does not read
MaxCalls == 4        \* method calls made on one NetworkDevice object
PassDeadline == 1    \* the deadline a pass is held against, in time units
MaxLoads == 2        \* calls of loadData on the page
MaxVersions == 2     \* versions of the data the backend goes through
MaxAlerts == 4       \* alerts in the list given to the alert panel

Commands == 1..NumCommands

Batches == UNION {[1..n -> Commands] : n \in 1..MaxBatch}

----------------------------------------------------------------------------
(* NetworkDevice: docs/NETWORK_MONITORING.md, backend/network_device.py *)

\* __init__: self.connection = None. transport is the state of the SSH
\* connection the ConnectHandler object wraps: none, open, dead (lost), closed.
NetworkDevice == [connection |-> FALSE, transport |-> "none"]

\* connect(), ConnectHandler succeeded: self.connection is set, returns True.
connect_ok(d) == [d EXCEPT !.connection = TRUE, !.transport = "open"]

\* connect(), ConnectHandler raised: the exception is logged, returns False and
\* self.connection stays None.
connect_failed(d) == d

\* disconnect(): calls connection.disconnect() when self.connection is set; it
\* does not reset self.connection.
disconnect(d) == IF d.connection THEN [d EXCEPT !.transport = "closed"] ELSE d

\* What connection.send_command can do, by the state of the transport: on an
\* open connection it returns the output ("ok"), raises with the session still
\* usable ("cmderr": malformed response, device error), raises because the
\* read timed out ("timeout") or raises because the session was lost ("dead");
\* on a lost or closed connection it raises ("ioerr").
SendOutcomes(d) ==
    IF d.transport = "open" THEN {"ok", "cmderr", "timeout", "dead"} ELSE {"ioerr"}

\* The transport after send_command ended with outcome o.
AfterSend(d, o) == IF o = "dead" THEN [d EXCEPT !.transport = "dead"] ELSE d

\* execute_command(): raises "Not connected to device" before any I/O when
\* self.connection is None; otherwise it calls send_command.
execute_command_guard(d) == d.connection

cached_device_connection(w, d) == <<"cache", d>>

\* create_device_connection(...): return NetworkDevice(device_info), a new
\* object on every call, which the flow w that called it for element d keeps
\* in its local variable device.
create_device_connection(w, d) == <<w, d>>

\* The flow w connects, runs or closes through the object it created for d.
Through(use, w, d) == use \cup {<<create_device_connection(w, d), w>>}

\* What execute_commands stores for a command: the output, or "Error: ..."
\* from the except branch.
ResultKind(o) == IF o = "ok" THEN "out" ELSE "err"

\* results[command] = value on a Python dict: a new key is appended to the
\* insertion order, an existing key keeps its place and has its value replaced.
DictKeysAfterSet(keys, k) ==
    IF \E i \in 1..Len(keys) : keys[i] = k THEN keys ELSE Append(keys, k)

DictValsAfterSet(vals, k, v) == [vals EXCEPT ![k] = v]

\* The items of the dict, in iteration order.
DictItems(keys, vals) == [i \in 1..Len(keys) |-> <<keys[i], vals[keys[i]]>>]

EmptyDictVals == [c \in Commands |-> "absent"]

----------------------------------------------------------------------------
(* POST /api/device/execute-multiple: execute_multiple_commands *)

EpInit ==
    /\ epPc = "idle"
    /\ epCmds = <<>>
    /\ epIdx = 0
    /\ epDevice = NetworkDevice
    /\ epKeys = <<>>
    /\ epVals = EmptyDictVals
    /\ epSendLog = <<>>
    /\ epResponse = "none"

\* A request arrives: device = create_device_connection(...).
EpRequest ==
    /\ epPc \in {"idle", "done"}
    /\ \E b \in Batches : epCmds' = b
    /\ epPc' = "connect"
    /\ epIdx' = 0
    /\ epDevice' = NetworkDevice
    /\ epKeys' = <<>>
    /\ epVals' = EmptyDictVals
    /\ epSendLog' = <<>>
    /\ epResponse' = "none"
    /\ UNCHANGED notEp

\* device.connect() returned True: execute_commands starts with results = {}.
EpConnectOk ==
    /\ epPc = "connect"
    /\ epDevice' = connect_ok(epDevice)
    /\ epPc' = "exec"
    /\ epIdx' = 1
    /\ UNCHANGED <<epCmds, epKeys, epVals, epSendLog, epResponse>>
    /\ UNCHANGED notEp

\* device.connect() returned False: HTTPException(500), then the finally branch.
EpConnectFail ==
    /\ epPc = "connect"
    /\ epDevice' = connect_failed(epDevice)
    /\ epPc' = "finally"
    /\ epResponse' = "http500"
    /\ UNCHANGED <<epCmds, epIdx, epKeys, epVals, epSendLog>>
    /\ UNCHANGED notEp

\* One turn of the for loop of execute_commands: execute_command(command) in a
\* try, the except branch storing the error text under the same key.
execute_commands_step ==
    /\ epPc = "exec"
    /\ epIdx <= Len(epCmds)
    /\ LET command == epCmds[epIdx] IN
        IF execute_command_guard(epDevice)
        THEN \E o \in SendOutcomes(epDevice) :
                /\ epSendLog' = Append(epSendLog,
                       [cmd |-> command, pre |-> epDevice.transport, outcome |-> o])
                /\ epDevice' = AfterSend(epDevice, o)
                /\ epKeys' = DictKeysAfterSet(epKeys, command)
                /\ epVals' = DictValsAfterSet(epVals, command, ResultKind(o))
        ELSE /\ epKeys' = DictKeysAfterSet(epKeys, command)
             /\ epVals' = DictValsAfterSet(epVals, command, "err")
             /\ UNCHANGED <<epSendLog, epDevice>>
    /\ epIdx' = epIdx + 1
    /\ UNCHANGED <<epPc, epCmds, epResponse>>
    /\ UNCHANGED notEp

\* execute_commands returned: the handler answers success with the dict.
EpReturn ==
    /\ epPc = "exec"
    /\ epIdx > Len(epCmds)
    /\ epPc' = "finally"
    /\ epResponse' = "ok"
    /\ UNCHANGED <<epCmds, epIdx, epDevice, epKeys, epVals, epSendLog>>
    /\ UNCHANGED notEp

\* finally: if device: device.disconnect().
EpFinally ==
    /\ epPc = "finally"
    /\ epDevice' = disconnect(epDevice)
    /\ epPc' = "done"
    /\ UNCHANGED <<epCmds, epIdx, epKeys, epVals, epSendLog, epResponse>>
    /\ UNCHANGED notEp

NextBatch ==
    \/ EpRequest
    \/ EpConnectOk
    \/ EpConnectFail
    \/ execute_commands_step
    \/ EpReturn
    \/ EpFinally

----------------------------------------------------------------------------
(* backend/scheduler.py: docs/MODIFICATION_GUIDE.md *)

Devices == 1..NumDevices

Range(f) == {f[i] : i \in DOMAIN f}

\* The sequence of the members of the set S of devices, in the order of the
\* collection (ascending ids).
RECURSIVE InOrder(_)
InOrder(S) ==
    IF S = {} THEN <<>>
    ELSE LET m == CHOOSE x \in S : \A y \in S : x <= y
         IN <<m>> \o InOrder(S \ {m})

\* find({"status": "active"}) filtered by "credentials" in element.
EligibleElements(inv) ==
    InOrder({d \in Devices : inv[d].active /\ inv[d].creds # "absent"})

\* The for loop of backup_all_devices handles one element at a time.
ConcurrencyLimit == 1

\* Sessions of the fleet runner that are connected and not closed or lost.
OpenSessions == {d \in Devices : sess[d].transport = "open"}

\* A scheduler driven by a timer instead: a pass is also triggered when the
\* interval elapses during a pass.
scheduler_triggers_on_interval ==
    schedPc = "top" \/ (schedPc = "pass" /\ sinceTrigger >= Interval)

\* while True: the loop body calls backup_all_devices() only from its top,
\* after the previous call and the sleep have returned.
scheduler_may_trigger == schedPc = "top"

\* A handler that lets the exception leave the for loop.
AbortOnDeviceException == "aborted"

\* except Exception in the for loop: the failure is printed and the loop goes
\* on with the next element.
AfterDeviceException == "loop"

\* What the pass records when device.connect() returns False: nothing (the if
\* has no else branch).
RecordConnectFalse(log, d) == log

\* print("Failed to backup ...") in the except branch.
RecordFailed(log, d) == Append(log, [dev |-> d, kind |-> "failed"])

\* config_backups.insert_one(backup) and print("Backed up ...").
RecordBackedUp(log, d) == Append(log, [dev |-> d, kind |-> "backed_up"])

credentials_defaulted(c) == TRUE

\* creds = element["credentials"]; creds["username"], creds["password"]: the
\* subscripts raise unless the document holds a credentials document.
credentials_readable(c) == c = "stored"

\* The inventories the database can hold.
\* A document has no "credentials" key (absent), holds credentials: null (the
\* default of the NetworkElement model) or holds a credentials document
\* (stored).
Inventories == [Devices -> [active : BOOLEAN, creds : {"absent", "null", "stored"}]]

FleetStart ==
    /\ schedPc = "top"
    /\ passesInFlight = 0
    /\ passCount = 0
    /\ sinceTrigger = 0
    /\ sleepLeft = 0
    /\ ticksInFlight = 0
    /\ schedLog = <<>>
    /\ passPc = "none"
    /\ elements = <<>>
    /\ idx = 0
    /\ sess = [d \in Devices |-> NetworkDevice]
    /\ attempted = {}
    /\ passLog = <<>>
    /\ handleUse = {}

FleetInit == inventory \in Inventories /\ FleetStart

\* The scheduler process not started, over an inventory of active devices
\* with credentials.
FleetQuiet == inventory = [d \in Devices |-> [active |-> TRUE, creds |-> "stored"]] /\ FleetStart

\* scheduler(): print("Running scheduled backup...") and the call of
\* backup_all_devices(), which opens its database client.
SchedulerRunPass ==
    /\ scheduler_may_trigger
    /\ passCount < MaxPasses
    /\ schedPc' = "pass"
    /\ passesInFlight' = passesInFlight + 1
    /\ passCount' = passCount + 1
    /\ sinceTrigger' = 0
    /\ schedLog' = Append(schedLog, "Running")
    /\ passPc' = "find"
    /\ elements' = <<>>
    /\ idx' = 0
    /\ attempted' = {}
    /\ passLog' = <<>>
    /\ UNCHANGED <<inventory, sleepLeft, ticksInFlight, sess>>
    /\ UNCHANGED notFleet

\* The find cursor delivered the active elements; those with credentials are
\* kept and "Starting backup for N devices" is printed.
BackupFindOk ==
    /\ passPc = "find"
    /\ elements' = EligibleElements(inventory)
    /\ idx' = 1
    /\ passPc' = "loop"
    /\ UNCHANGED <<inventory, schedPc, passesInFlight, passCount, sinceTrigger, sleepLeft,
                   ticksInFlight, schedLog, sess, attempted, passLog>>
    /\ UNCHANGED notFleet

\* The database could not be read: the exception leaves backup_all_devices()
\* and scheduler(), which has no handler.
BackupFindFail ==
    /\ passPc = "find"
    /\ passPc' = "aborted"
    /\ schedPc' = "crashed"
    /\ passesInFlight' = passesInFlight - 1
    /\ UNCHANGED <<inventory, passCount, sinceTrigger, sleepLeft, ticksInFlight, schedLog,
                   elements, idx, sess, attempted, passLog>>
    /\ UNCHANGED notFleet

\* device = create_device_connection(...); device.connect() returned True.
BackupConnectOk ==
    /\ passPc = "loop"
    /\ idx <= Len(elements)
    /\ credentials_readable(inventory[elements[idx]].creds)
    /\ LET d == elements[idx] IN
        /\ sess' = [sess EXCEPT ![d] = connect_ok(NetworkDevice)]
        /\ attempted' = attempted \cup {d}
    /\ passPc' = "execute"
    /\ UNCHANGED <<inventory, schedPc, passesInFlight, passCount, sinceTrigger, sleepLeft,
                   ticksInFlight, schedLog, elements, idx, passLog>>
    /\ handleUse' = Through(handleUse, "pass", elements[idx])
    /\ UNCHANGED <<epVars, bcVars, ndVars, qcVars, pgVars, apVars>>

\* element["credentials"]["username"] on credentials: null raises before
\* create_device_connection is called: the except branch prints the failure.
BackupCredentialsRaise ==
    /\ passPc = "loop"
    /\ idx <= Len(elements)
    /\ ~credentials_readable(inventory[elements[idx]].creds)
    /\ passLog' = RecordFailed(passLog, elements[idx])
    /\ idx' = idx + 1
    /\ passPc' = AfterDeviceException
    /\ UNCHANGED <<inventory, schedPc, passesInFlight, passCount, sinceTrigger, sleepLeft,
                   ticksInFlight, schedLog, elements, sess, attempted>>
    /\ UNCHANGED notFleet

\* device.connect() returned False: the body of the if is skipped.
BackupConnectFail ==
    /\ passPc = "loop"
    /\ idx <= Len(elements)
    /\ credentials_readable(inventory[elements[idx]].creds)
    /\ LET d == elements[idx] IN
        /\ sess' = [sess EXCEPT ![d] = connect_failed(NetworkDevice)]
        /\ attempted' = attempted \cup {d}
        /\ passLog' = RecordConnectFalse(passLog, d)
    /\ idx' = idx + 1
    /\ UNCHANGED <<inventory, schedPc, passesInFlight, passCount, sinceTrigger, sleepLeft,
                   ticksInFlight, schedLog, passPc, elements>>
    /\ handleUse' = Through(handleUse, "pass", elements[idx])
    /\ UNCHANGED <<epVars, bcVars, ndVars, qcVars, pgVars, apVars>>

\* config = device.execute_command("show running-config"): the output, or an
\* exception that the except branch of the loop prints.
BackupExecute ==
    /\ passPc = "execute"
    /\ LET d == elements[idx] IN
        \E o \in SendOutcomes(sess[d]) :
            /\ sess' = [sess EXCEPT ![d] = AfterSend(sess[d], o)]
            /\ IF o = "ok"
               THEN /\ passPc' = "insert"
                    /\ UNCHANGED <<idx, passLog>>
               ELSE /\ passPc' = AfterDeviceException
                    /\ idx' = idx + 1
                    /\ passLog' = RecordFailed(passLog, d)
    /\ UNCHANGED <<inventory, schedPc, passesInFlight, passCount, sinceTrigger, sleepLeft,
                   ticksInFlight, schedLog, elements, attempted>>
    /\ handleUse' = Through(handleUse, "pass", elements[idx])
    /\ UNCHANGED <<epVars, bcVars, ndVars, qcVars, pgVars, apVars>>

\* insert_one stored the backup; "Backed up" is printed and device.disconnect()
\* is called.
BackupInsertOk ==
    /\ passPc = "insert"
    /\ LET d == elements[idx] IN
        /\ passLog' = RecordBackedUp(passLog, d)
        /\ sess' = [sess EXCEPT ![d] = disconnect(sess[d])]
    /\ idx' = idx + 1
    /\ passPc' = "loop"
    /\ UNCHANGED <<inventory, schedPc, passesInFlight, passCount, sinceTrigger, sleepLeft,
                   ticksInFlight, schedLog, elements, attempted>>
    /\ handleUse' = Through(handleUse, "pass", elements[idx])
    /\ UNCHANGED <<epVars, bcVars, ndVars, qcVars, pgVars, apVars>>

\* insert_one raised: the except branch prints the failure; device.disconnect()
\* is not reached.
BackupInsertFail ==
    /\ passPc = "insert"
    /\ passLog' = RecordFailed(passLog, elements[idx])
    /\ idx' = idx + 1
    /\ passPc' = AfterDeviceException
    /\ UNCHANGED <<inventory, schedPc, passesInFlight, passCount, sinceTrigger, sleepLeft,
                   ticksInFlight, schedLog, elements, sess, attempted>>
    /\ UNCHANGED notFleet

\* The for loop is exhausted: client.close().
BackupLoopEnd ==
    /\ passPc = "loop"
    /\ idx > Len(elements)
    /\ passPc' = "done"
    /\ UNCHANGED <<inventory, schedPc, passesInFlight, passCount, sinceTrigger, sleepLeft,
                   ticksInFlight, schedLog, elements, idx, sess, attempted, passLog>>
    /\ UNCHANGED notFleet

\* backup_all_devices() returned: scheduler() prints "Backup complete" and
\* starts asyncio.sleep(6 * 60 * 60).
SchedulerSleep ==
    /\ schedPc = "pass"
    /\ passPc = "done"
    /\ schedPc' = "sleep"
    /\ passesInFlight' = passesInFlight - 1
    /\ sleepLeft' = Interval
    /\ schedLog' = Append(schedLog, "Complete")
    /\ passPc' = "none"
    /\ UNCHANGED <<inventory, passCount, sinceTrigger, ticksInFlight, elements, idx, sess,
                   attempted, passLog>>
    /\ UNCHANGED notFleet

\* Time passes while the pass is in flight (connect and send_command block,
\* the database calls are awaited); nothing of scheduler() runs then.
PassTimeElapses ==
    /\ schedPc = "pass"
    /\ sinceTrigger < MaxPassTime
    /\ sinceTrigger' = sinceTrigger + 1
    /\ ticksInFlight' = IF sinceTrigger' % Interval = 0 THEN ticksInFlight + 1
                        ELSE ticksInFlight
    /\ UNCHANGED <<inventory, schedPc, passesInFlight, passCount, sleepLeft, schedLog,
                   passPc, elements, idx, sess, attempted, passLog>>
    /\ UNCHANGED notFleet

\* Time passes during asyncio.sleep.
SleepTimeElapses ==
    /\ schedPc = "sleep"
    /\ sleepLeft > 0
    /\ sleepLeft' = sleepLeft - 1
    /\ UNCHANGED <<inventory, schedPc, passesInFlight, passCount, sinceTrigger, ticksInFlight,
                   schedLog, passPc, elements, idx, sess, attempted, passLog>>
    /\ UNCHANGED notFleet

\* asyncio.sleep returned: back to the top of the while loop.
SchedulerWake ==
    /\ schedPc = "sleep"
    /\ sleepLeft = 0
    /\ schedPc' = "top"
    /\ UNCHANGED <<inventory, passesInFlight, passCount, sinceTrigger, sleepLeft,
                   ticksInFlight, schedLog, passPc, elements, idx, sess, attempted, passLog>>
    /\ UNCHANGED notFleet

\* The only way scheduler() stops: `while True` has no exit and there is no
\* stop(), so the process running asyncio.run(scheduler()) is interrupted. The
\* interrupt is no Exception: it passes the except branch of the for loop and
\* leaves backup_all_devices() where it stands.
SchedulerInterrupt ==
    /\ schedPc \in {"top", "pass", "sleep"}
    /\ schedPc' = "stopped"
    /\ passPc' = IF schedPc = "pass" THEN "cancelled" ELSE passPc
    /\ passesInFlight' = 0
    /\ UNCHANGED <<inventory, passCount, sinceTrigger, sleepLeft, ticksInFlight, schedLog,
                   elements, idx, sess, attempted, passLog>>
    /\ UNCHANGED notFleet

NextFleet ==
    \/ SchedulerRunPass
    \/ BackupFindOk
    \/ BackupFindFail
    \/ BackupCredentialsRaise
    \/ BackupConnectOk
    \/ BackupConnectFail
    \/ BackupExecute
    \/ BackupInsertOk
    \/ BackupInsertFail
    \/ BackupLoopEnd
    \/ SchedulerSleep
    \/ PassTimeElapses
    \/ SleepTimeElapses
    \/ SchedulerWake
    \/ SchedulerInterrupt

----------------------------------------------------------------------------
(* ConnectionManager: docs/NETWORK_MONITORING.md, backend/main.py *)

Subs == 1..NumSubs

\* The list without its element at position i.
RemoveAt(q, i) == SubSeq(q, 1, i - 1) \o SubSeq(q, i + 1, Len(q))

\* An unregistering that takes the last connection out when x is not there.
ListRemoveOrLast(q, x) ==
    IF \E i \in 1..Len(q) : q[i] = x
    THEN RemoveAt(q, CHOOSE i \in 1..Len(q) : q[i] = x /\ \A j \in 1..(i - 1) : q[j] # x)
    ELSE SubSeq(q, 1, Len(q) - 1)

\* list.remove(x): the first occurrence of x is taken out; a list without x
\* is left as it is.
ListRemove(q, x) ==
    IF \E i \in 1..Len(q) : q[i] = x
    THEN RemoveAt(q, CHOOSE i \in 1..Len(q) : q[i] = x /\ \A j \in 1..(i - 1) : q[j] # x)
    ELSE q

\* The message has reached connection s: its transport took it or its client
\* read it.
Delivered(s, m) == m \in got[s] \/ m \in Range(inbox[s])

\* What awaiting connection.send_json does, by the state of the connection: a
\* reading client gets the message ("read"), the transport of a client that
\* does not read takes it while it has room ("buffered") and otherwise the
\* await does not return ("blocked"); a closed connection raises ("raise").
SendJsonOutcome(s) ==
    CASE subState[s] = "live" -> "read"
      [] subState[s] = "stalled" /\ Len(inbox[s]) < BufCap -> "buffered"
      [] subState[s] = "stalled" -> "blocked"
      [] OTHER -> "raise"

\* An exception of send_json is not caught in broadcast(): the for loop is left
\* and the connections after the failing one are not sent to.
AfterSendJsonRaise == "idle"

BcInit ==
    /\ registry = <<>>
    /\ subState = [s \in Subs |-> "new"]
    /\ inbox = [s \in Subs |-> <<>>]
    /\ got = [s \in Subs |-> {}]
    /\ bPc = "idle"
    /\ bIdx = 0
    /\ bCur = 0
    /\ bMsg = 0
    /\ bOutcome = "none"
    /\ bTargets = {}
    /\ bLeftBefore = {}
    /\ bRegChanged = FALSE
    /\ fullHit = [s \in Subs |-> FALSE]
    /\ unregFound = [s \in Subs |-> "none"]

\* manager.connect(websocket): the connection is accepted and appended to
\* active_connections.
Subscribe(s) ==
    /\ subState[s] = "new"
    /\ subState' = [subState EXCEPT ![s] = "live"]
    /\ registry' = Append(registry, s)
    /\ bRegChanged' = (bRegChanged \/ bPc # "idle")
    /\ UNCHANGED <<inbox, got, bPc, bIdx, bCur, bMsg, bOutcome, bTargets, bLeftBefore, fullHit>>
    /\ UNCHANGED notBc

\* Unregistering a connection: it is removed from active_connections if it is
\* there.
Unsubscribe(s) ==
    /\ subState[s] # "new"
    /\ registry' = ListRemove(registry, s)
    /\ bRegChanged' = (bRegChanged \/ (bPc # "idle" /\ registry' # registry))
    /\ unregFound' = [unregFound EXCEPT
                        ![s] = IF s \in Range(registry) THEN "removed" ELSE "absent"]
    /\ UNCHANGED <<subState, inbox, got, bPc, bIdx, bCur, bMsg, bOutcome, bTargets,
                   bLeftBefore, fullHit>>
    /\ UNCHANGED <<epVars, fleetVars, ndVars, qcVars, handleUse, pgVars, apVars>>

\* The client of a connection stops reading.
ClientStall(s) ==
    /\ subState[s] = "live"
    /\ subState' = [subState EXCEPT ![s] = "stalled"]
    /\ UNCHANGED <<registry, inbox, got, bPc, bIdx, bCur, bMsg, bOutcome, bTargets,
                   bLeftBefore, bRegChanged, fullHit>>
    /\ UNCHANGED notBc

\* The client reads again and takes what its transport holds.
ClientDrain(s) ==
    /\ subState[s] = "stalled"
    /\ subState' = [subState EXCEPT ![s] = "live"]
    /\ got' = [got EXCEPT ![s] = got[s] \cup Range(inbox[s])]
    /\ inbox' = [inbox EXCEPT ![s] = <<>>]
    /\ UNCHANGED <<registry, bPc, bIdx, bCur, bMsg, bOutcome, bTargets, bLeftBefore,
                   bRegChanged, fullHit>>
    /\ UNCHANGED notBc

\* The connection is closed by its client or the network.
ClientGone(s) ==
    /\ subState[s] \in {"live", "stalled"}
    /\ subState' = [subState EXCEPT ![s] = "gone"]
    /\ UNCHANGED <<registry, inbox, got, bPc, bIdx, bCur, bMsg, bOutcome, bTargets,
                   bLeftBefore, bRegChanged, fullHit>>
    /\ UNCHANGED notBc

\* broadcast(message) is called: the for loop takes an iterator on
\* active_connections itself.
BroadcastStart ==
    /\ bPc = "idle"
    /\ bMsg < MaxPublish
    /\ bMsg' = bMsg + 1
    /\ bPc' = "iter"
    /\ bIdx' = 1
    /\ bCur' = 0
    /\ bOutcome' = "none"
    /\ bTargets' = Range(registry)
    /\ bLeftBefore' = {s \in Subs : subState[s] # "new"} \ Range(registry)
    /\ bRegChanged' = FALSE
    /\ UNCHANGED <<registry, subState, inbox, got, fullHit>>
    /\ UNCHANGED notBc

\* What a send_json that ended with outcome o for connection c leaves behind.
BroadcastSettle(c, o) ==
    /\ got' = IF o = "read" THEN [got EXCEPT ![c] = got[c] \cup {bMsg}] ELSE got
    /\ inbox' = IF o = "buffered" THEN [inbox EXCEPT ![c] = Append(inbox[c], bMsg)] ELSE inbox
    /\ fullHit' = IF o = "blocked" THEN [fullHit EXCEPT ![c] = TRUE] ELSE fullHit
    /\ bPc' = CASE o = "blocked" -> "blocked"
                [] o = "raise" -> AfterSendJsonRaise
                [] OTHER -> "iter"
    /\ bOutcome' = IF o = "raise" /\ bPc' = "idle" THEN "raised" ELSE bOutcome
    /\ bIdx' = IF o = "blocked" THEN bIdx ELSE bIdx + 1

\* One turn of the for loop: await connection.send_json(message) for the
\* connection the iterator is at.
BroadcastSend ==
    /\ bPc = "iter"
    /\ bIdx <= Len(registry)
    /\ bCur' = registry[bIdx]
    /\ BroadcastSettle(registry[bIdx], SendJsonOutcome(registry[bIdx]))
    /\ UNCHANGED <<registry, subState, bMsg, bTargets, bLeftBefore, bRegChanged>>
    /\ UNCHANGED notBc

\* The pending await ends: the client read again, or the connection was closed.
BroadcastResume ==
    /\ bPc = "blocked"
    /\ SendJsonOutcome(bCur) # "blocked"
    /\ BroadcastSettle(bCur, SendJsonOutcome(bCur))
    /\ UNCHANGED <<registry, subState, bCur, bMsg, bTargets, bLeftBefore, bRegChanged>>
    /\ UNCHANGED notBc

\* The iterator is past the end of the list: broadcast() returns.
BroadcastEnd ==
    /\ bPc = "iter"
    /\ bIdx > Len(registry)
    /\ bPc' = "idle"
    /\ bOutcome' = "returned"
    /\ UNCHANGED <<registry, subState, inbox, got, bIdx, bCur, bMsg, bTargets, bLeftBefore,
                   bRegChanged, fullHit>>
    /\ UNCHANGED notBc

\* The registry and its clients while nothing is broadcast.
NextRegistry ==
    \/ \E s \in Subs : Subscribe(s)
    \/ \E s \in Subs : Unsubscribe(s)
    \/ \E s \in Subs : ClientStall(s)
    \/ \E s \in Subs : ClientGone(s)

NextBroadcast ==
    \/ \E s \in Subs : Subscribe(s)
    \/ \E s \in Subs : Unsubscribe(s)
    \/ \E s \in Subs : ClientStall(s)
    \/ \E s \in Subs : ClientDrain(s)
    \/ \E s \in Subs : ClientGone(s)
    \/ BroadcastStart
    \/ BroadcastSend
    \/ BroadcastResume
    \/ BroadcastEnd

----------------------------------------------------------------------------
(* One NetworkDevice object under any sequence of calls of its methods *)

NdInit ==
    /\ ndDev = NetworkDevice
    /\ ndPc = "idle"
    /\ ndLog = <<>>
    /\ ndLast = "none"
    /\ ndCalls = 0
    /\ ndReport = "none"

connect_without_except == "raised"

\* connect(): except Exception as e: logger.error(...); return False.
connect_except == "False"

\* execute_command(): send_command blocks until it returns or raises; return
\* output and the re-raise of the except branch both leave the method.
execute_command_leaves == "idle"

\* connect() is called: ConnectHandler(**self.device_info) starts.
NdConnectCall ==
    /\ ndPc = "idle"
    /\ ndCalls < MaxCalls
    /\ ndPc' = "connecting"
    /\ ndLog' = Append(ndLog, [op |-> "ConnectHandler", pre |-> ndDev.transport])
    /\ ndLast' = "pending"
    /\ ndCalls' = ndCalls + 1
    /\ UNCHANGED ndDev
    /\ UNCHANGED ndReport
    /\ UNCHANGED notNd

\* ConnectHandler returned a connection: connect() returns True.
NdConnectOk ==
    /\ ndPc = "connecting"
    /\ ndDev' = connect_ok(ndDev)
    /\ ndPc' = "idle"
    /\ ndLast' = "True"
    /\ UNCHANGED <<ndLog, ndCalls>>
    /\ UNCHANGED ndReport
    /\ UNCHANGED notNd

\* ConnectHandler raised (unreachable, refused, authentication, timeout).
NdConnectRaise ==
    /\ ndPc = "connecting"
    /\ ndDev' = connect_failed(ndDev)
    /\ ndPc' = "idle"
    /\ ndLast' = connect_except
    /\ UNCHANGED <<ndLog, ndCalls>>
    /\ UNCHANGED ndReport
    /\ UNCHANGED notNd

\* execute_command(command) is called: the guard raises before any I/O, or
\* connection.send_command starts.
NdExecuteCall ==
    /\ ndPc = "idle"
    /\ ndCalls < MaxCalls
    /\ ndCalls' = ndCalls + 1
    /\ IF execute_command_guard(ndDev)
        THEN /\ ndPc' = "executing"
             /\ ndLog' = Append(ndLog, [op |-> "send_command", pre |-> ndDev.transport])
             /\ ndLast' = "pending"
        ELSE /\ ndLast' = "NotConnected"
             /\ UNCHANGED <<ndPc, ndLog>>
    /\ UNCHANGED ndDev
    /\ UNCHANGED ndReport
    /\ UNCHANGED notNd

\* send_command returned or raised: execute_command returns the output or
\* re-raises.
NdExecuteReturn ==
    /\ ndPc = "executing"
    /\ \E o \in SendOutcomes(ndDev) :
        /\ ndDev' = AfterSend(ndDev, o)
        /\ ndLast' = o
    /\ ndPc' = execute_command_leaves
    /\ UNCHANGED <<ndLog, ndCalls>>
    /\ UNCHANGED ndReport
    /\ UNCHANGED notNd

\* disconnect() is called.
NdDisconnect ==
    /\ ndPc = "idle"
    /\ ndCalls < MaxCalls
    /\ ndCalls' = ndCalls + 1
    /\ ndLog' = IF ndDev.connection
                    THEN Append(ndLog, [op |-> "disconnect", pre |-> ndDev.transport])
                    ELSE ndLog
    /\ ndDev' = disconnect(ndDev)
    /\ ndLast' = "None"
    /\ UNCHANGED ndPc
    /\ UNCHANGED ndReport
    /\ UNCHANGED notNd

\* What connection.send_config_set can do on an open connection: every
\* command is applied and the output returned ("applied"); the device rejects
\* a command after it took earlier ones, which send_config_set returns as part
\* of the output ("partial_output") or raises ("partial_raise"); the session is
\* lost ("dead"). On a lost or closed connection it raises ("ioerr").
ConfigOutcomes(d) ==
    IF d.transport = "open"
    THEN {"applied", "partial_output", "partial_raise", "dead"}
    ELSE {"ioerr"}

\* What the transport did with the set, by outcome.
ConfigReport(o) ==
    CASE o = "applied" -> "applied"
      [] o \in {"partial_output", "partial_raise"} -> "partial"
      [] OTHER -> "none"

\* execute_config_commands(): output = send_config_set(commands); return
\* output, whatever the output holds; an exception is logged and re-raised.
config_result(o) ==
    IF o \in {"applied", "partial_output"} THEN "config_output" ELSE "config_raised"

\* execute_config_commands(commands) is called: the guard raises before any
\* I/O, or connection.send_config_set starts.
NdConfigCall ==
    /\ ndPc = "idle"
    /\ ndCalls < MaxCalls
    /\ ndCalls' = ndCalls + 1
    /\ IF execute_command_guard(ndDev)
        THEN /\ ndPc' = "configuring"
             /\ ndLog' = Append(ndLog, [op |-> "send_config_set", pre |-> ndDev.transport])
             /\ ndLast' = "pending"
        ELSE /\ ndLast' = "NotConnected"
             /\ UNCHANGED <<ndPc, ndLog>>
    /\ ndReport' = "none"
    /\ UNCHANGED ndDev
    /\ UNCHANGED notNd

\* send_config_set returned or raised.
NdConfigReturn ==
    /\ ndPc = "configuring"
    /\ \E o \in ConfigOutcomes(ndDev) :
        /\ ndDev' = AfterSend(ndDev, o)
        /\ ndLast' = config_result(o)
        /\ ndReport' = ConfigReport(o)
    /\ ndPc' = "idle"
    /\ UNCHANGED <<ndLog, ndCalls>>
    /\ UNCHANGED notNd

NextDevice ==
    \/ NdConnectCall
    \/ NdConnectOk
    \/ NdConnectRaise
    \/ NdExecuteCall
    \/ NdExecuteReturn
    \/ NdConfigCall
    \/ NdConfigReturn
    \/ NdDisconnect

----------------------------------------------------------------------------
(* POST /api/device/quick-check/{element_id}: quick_device_check *)

\* commands = [...]: the four show commands of the check, all distinct, so
\* execute_commands returns a dict of four results.
QuickCommands == 4

QcInit ==
    /\ qcPc = "idle"
    /\ qcElem = 0
    /\ qcMade = FALSE
    /\ qcDevice = NetworkDevice
    /\ qcIdx = 0
    /\ qcStored = 0
    /\ qcResponse = "none"
    /\ qcConnects = {}

\* A request arrives and find_one is awaited.
QcRequest ==
    /\ qcPc \in {"idle", "done"}
    /\ \E e \in Devices \cup {0} : qcElem' = e
    /\ qcPc' = "lookup"
    /\ qcMade' = FALSE
    /\ qcDevice' = NetworkDevice
    /\ qcIdx' = 0
    /\ qcStored' = 0
    /\ qcResponse' = "none"
    /\ UNCHANGED qcConnects
    /\ UNCHANGED notQc

\* if not element: 404.
QcNotFound ==
    /\ qcPc = "lookup"
    /\ qcElem = 0
    /\ qcResponse' = "http404"
    /\ qcPc' = "done"
    /\ UNCHANGED <<qcElem, qcMade, qcDevice, qcIdx, qcStored, qcConnects>>
    /\ UNCHANGED notQc

\* if "credentials" not in element: 400, before device is created.
QcNoCredentials ==
    /\ qcPc = "lookup"
    /\ qcElem # 0
    /\ inventory[qcElem].creds = "absent"
    /\ qcResponse' = "http400"
    /\ qcPc' = "done"
    /\ UNCHANGED <<qcElem, qcMade, qcDevice, qcIdx, qcStored, qcConnects>>
    /\ UNCHANGED notQc

\* The element has a "credentials" key: device = None and the try is entered.
QcEnterTry ==
    /\ qcPc = "lookup"
    /\ qcElem # 0
    /\ inventory[qcElem].creds # "absent"
    /\ qcPc' = "try"
    /\ UNCHANGED <<qcElem, qcMade, qcDevice, qcIdx, qcStored, qcResponse, qcConnects>>
    /\ UNCHANGED notQc

\* creds["username"] raises on credentials: null: except answers 500, device
\* is still None.
QcCredentialsRaise ==
    /\ qcPc = "try"
    /\ ~credentials_readable(inventory[qcElem].creds)
    /\ qcResponse' = "http500"
    /\ qcPc' = "finally"
    /\ UNCHANGED <<qcElem, qcMade, qcDevice, qcIdx, qcStored, qcConnects>>
    /\ UNCHANGED notQc

\* create_device_connection and device.connect() returned True.
QcConnectOk ==
    /\ qcPc = "try"
    /\ credentials_readable(inventory[qcElem].creds)
    /\ qcMade' = TRUE
    /\ qcDevice' = connect_ok(NetworkDevice)
    /\ qcConnects' = qcConnects \cup {qcElem}
    /\ qcPc' = "exec"
    /\ UNCHANGED <<qcElem, qcIdx, qcStored, qcResponse>>
    /\ handleUse' = Through(handleUse, "quick", qcElem)
    /\ UNCHANGED <<epVars, fleetVars, bcVars, ndVars, pgVars, apVars>>

\* device.connect() returned False: HTTPException(500) is raised, caught by
\* except Exception and raised again as a 500.
QcConnectFail ==
    /\ qcPc = "try"
    /\ credentials_readable(inventory[qcElem].creds)
    /\ qcMade' = TRUE
    /\ qcDevice' = connect_failed(NetworkDevice)
    /\ qcConnects' = qcConnects \cup {qcElem}
    /\ qcResponse' = "http500"
    /\ qcPc' = "finally"
    /\ UNCHANGED <<qcElem, qcIdx, qcStored>>
    /\ handleUse' = Through(handleUse, "quick", qcElem)
    /\ UNCHANGED <<epVars, fleetVars, bcVars, ndVars, pgVars, apVars>>

\* One iteration of execute_commands(commands): it stores the output or the
\* error text and never raises.
QcExecuteStep ==
    /\ qcPc = "exec"
    /\ qcIdx < QuickCommands
    /\ \E o \in SendOutcomes(qcDevice) : qcDevice' = AfterSend(qcDevice, o)
    /\ qcIdx' = qcIdx + 1
    /\ UNCHANGED <<qcPc, qcElem, qcMade, qcStored, qcResponse, qcConnects>>
    /\ handleUse' = Through(handleUse, "quick", qcElem)
    /\ UNCHANGED <<epVars, fleetVars, bcVars, ndVars, pgVars, apVars>>

\* execute_commands returned: the for loop over outputs.items() starts.
QcExecuted ==
    /\ qcPc = "exec"
    /\ qcIdx = QuickCommands
    /\ qcPc' = "store"
    /\ UNCHANGED <<qcElem, qcMade, qcDevice, qcIdx, qcStored, qcResponse, qcConnects>>
    /\ UNCHANGED notQc

\* await database.command_outputs.insert_one(metric) for the next result.
QcStoreOk ==
    /\ qcPc = "store"
    /\ qcStored < qcIdx
    /\ qcStored' = qcStored + 1
    /\ UNCHANGED <<qcPc, qcElem, qcMade, qcDevice, qcIdx, qcResponse, qcConnects>>
    /\ UNCHANGED notQc

insert_failure_swallowed == "ok"

\* except Exception as e: raise HTTPException(status_code=500, ...), also for
\* an exception of insert_one in the middle of the for loop.
insert_failure_response == "http500"

\* insert_one raised: except answers 500.
QcStoreFail ==
    /\ qcPc = "store"
    /\ qcStored < qcIdx
    /\ qcResponse' = insert_failure_response
    /\ qcPc' = "finally"
    /\ UNCHANGED <<qcElem, qcMade, qcDevice, qcIdx, qcStored, qcConnects>>
    /\ UNCHANGED notQc

\* return {"success": True, ...}.
QcReturn ==
    /\ qcPc = "store"
    /\ qcStored = qcIdx
    /\ qcResponse' = "ok"
    /\ qcPc' = "finally"
    /\ UNCHANGED <<qcElem, qcMade, qcDevice, qcIdx, qcStored, qcConnects>>
    /\ UNCHANGED notQc

\* finally: if device: device.disconnect().
QcFinally ==
    /\ qcPc = "finally"
    /\ qcDevice' = IF qcMade THEN disconnect(qcDevice) ELSE qcDevice
    /\ qcPc' = "done"
    /\ UNCHANGED <<qcElem, qcMade, qcIdx, qcStored, qcResponse, qcConnects>>
    /\ handleUse' = IF qcMade THEN Through(handleUse, "quick", qcElem) ELSE handleUse
    /\ UNCHANGED <<epVars, fleetVars, bcVars, ndVars, pgVars, apVars>>

NextQuick ==
    \/ QcRequest
    \/ QcNotFound
    \/ QcNoCredentials
    \/ QcEnterTry
    \/ QcCredentialsRaise
    \/ QcConnectOk
    \/ QcConnectFail
    \/ QcExecuteStep
    \/ QcExecuted
    \/ QcStoreOk
    \/ QcStoreFail
    \/ QcReturn
    \/ QcFinally

\* The quick check served while the scheduler runs a pass: the steps of the
\* two flows in any order, time not followed.
NextOnDemand ==
    \/ NextQuick
    \/ SchedulerRunPass
    \/ BackupFindOk
    \/ BackupFindFail
    \/ BackupCredentialsRaise
    \/ BackupConnectOk
    \/ BackupConnectFail
    \/ BackupExecute
    \/ BackupInsertOk
    \/ BackupInsertFail
    \/ BackupLoopEnd
    \/ SchedulerSleep

----------------------------------------------------------------------------
(* The dashboard page: frontend/src/app/page.tsx, components/AlertPanel.tsx *)

Loads == 1..MaxLoads

\* A request of lib/api.ts before its response: axios resolves with the body
\* or rejects.
PendingFetch == [st |-> "pending", has |-> FALSE, data |-> 0]

\* The body of a 2xx response: an object whose data field is the list the
\* backend holds at that moment, or an object without a usable data field.
OkFetch(has, v) == [st |-> "ok", has |-> has, data |-> IF has THEN v ELSE 0]

FailedFetch == [st |-> "failed", has |-> FALSE, data |-> 0]

\* elementsData.data || []: the list of the body, the empty list without one.
\* A list is told by the version of the backend's data it was read from.
DataOrEmpty(f) == IF f.has THEN <<f.data>> ELSE <<>>

NoLoad == [st |-> "none", by |-> "none", e |-> PendingFetch, a |-> PendingFetch]

\* loadData() entered: fetchElements() and fetchAlerts() are both sent.
StartedLoad(by) == [st |-> "flight", by |-> by, e |-> PendingFetch, a |-> PendingFetch]

\* await Promise.all([...]): fulfilled when both requests are, rejected as
\* soon as one of them is.
AllFulfilled(ld) == ld.e.st = "ok" /\ ld.a.st = "ok"

AnyRejected(ld) == ld.e.st = "failed" \/ ld.a.st = "failed"

\* What a variant that applies each response on its own gives elements.
elements_after_each_fetch(cur, ld) == IF ld.e.st = "ok" THEN DataOrEmpty(ld.e) ELSE cur

\* setElements sits after the await inside the try: it runs when Promise.all
\* was fulfilled and is skipped when it threw.
elements_after_load(cur, ld) == IF AllFulfilled(ld) THEN DataOrEmpty(ld.e) ELSE cur

alerts_after_load(cur, ld) == IF AllFulfilled(ld) THEN DataOrEmpty(ld.a) ELSE cur

\* A handleResolve that calls onRefresh whatever the request did.
refresh_after_any_resolve == TRUE

\* handleResolve: onRefresh() follows the await inside the try, the catch
\* logs and calls nothing.
refresh_after_failed_resolve == FALSE

\* Home is mounted: the three useState defaults, and the effect has called
\* loadData() once and set the interval.
PgInit ==
    /\ pgElements = <<>>
    /\ pgAlerts = <<>>
    /\ pgLoading = TRUE
    /\ pgLoads = [l \in Loads |-> IF l = 1 THEN StartedLoad("mount") ELSE NoLoad]
    /\ pgStarted = 1
    /\ serverVer = 1
    /\ pgResolve = "none"
    /\ pgResolvedOk = 0

\* The monitor stores new metrics and alerts.
ServerChanges ==
    /\ serverVer < MaxVersions
    /\ serverVer' = serverVer + 1
    /\ UNCHANGED <<pgElements, pgAlerts, pgLoading, pgLoads, pgStarted, pgResolve,
                   pgResolvedOk>>
    /\ UNCHANGED notPg

\* setInterval(loadData, 30000) fires: loadData is called, whatever the
\* earlier calls are doing.
TimerFires ==
    /\ pgStarted < MaxLoads
    /\ pgStarted' = pgStarted + 1
    /\ pgLoads' = [pgLoads EXCEPT ![pgStarted + 1] = StartedLoad("timer")]
    /\ UNCHANGED <<pgElements, pgAlerts, pgLoading, serverVer, pgResolve, pgResolvedOk>>
    /\ UNCHANGED notPg

\* The Refresh button of ElementList, rendered once loading is false:
\* onClick={onRefresh}, which is loadData.
RefreshClick ==
    /\ ~pgLoading
    /\ pgStarted < MaxLoads
    /\ pgStarted' = pgStarted + 1
    /\ pgLoads' = [pgLoads EXCEPT ![pgStarted + 1] = StartedLoad("refresh")]
    /\ UNCHANGED <<pgElements, pgAlerts, pgLoading, serverVer, pgResolve, pgResolvedOk>>
    /\ UNCHANGED notPg

\* The backend answers fetchElements (f = "e") or fetchAlerts (f = "a") of
\* load l with the data it holds now; the response is on its way to the page.
FetchOk(l, f) ==
    /\ pgLoads[l].st = "flight"
    /\ pgLoads[l][f].st = "pending"
    /\ \E has \in BOOLEAN :
           pgLoads' = [pgLoads EXCEPT ![l][f] = OkFetch(has, serverVer)]
    /\ UNCHANGED <<pgElements, pgAlerts, pgLoading, pgStarted, serverVer, pgResolve,
                   pgResolvedOk>>
    /\ UNCHANGED notPg

\* The request fails: network error or a status outside 2xx.
FetchFail(l, f) ==
    /\ pgLoads[l].st = "flight"
    /\ pgLoads[l][f].st = "pending"
    /\ pgLoads' = [pgLoads EXCEPT ![l][f] = FailedFetch]
    /\ UNCHANGED <<pgElements, pgAlerts, pgLoading, pgStarted, serverVer, pgResolve,
                   pgResolvedOk>>
    /\ UNCHANGED notPg

\* loadData resumes after a fulfilled Promise.all: setElements, setAlerts,
\* then the finally.
LoadFulfilled(l) ==
    /\ pgLoads[l].st = "flight"
    /\ AllFulfilled(pgLoads[l])
    /\ pgElements' = elements_after_load(pgElements, pgLoads[l])
    /\ pgAlerts' = alerts_after_load(pgAlerts, pgLoads[l])
    /\ pgLoading' = FALSE
    /\ pgLoads' = [pgLoads EXCEPT ![l].st = "done"]
    /\ UNCHANGED <<pgStarted, serverVer, pgResolve, pgResolvedOk>>
    /\ UNCHANGED notPg

\* loadData resumes in the catch: console.error, then the finally.
LoadRejected(l) ==
    /\ pgLoads[l].st = "flight"
    /\ AnyRejected(pgLoads[l])
    /\ pgElements' = elements_after_load(pgElements, pgLoads[l])
    /\ pgAlerts' = alerts_after_load(pgAlerts, pgLoads[l])
    /\ pgLoading' = FALSE
    /\ pgLoads' = [pgLoads EXCEPT ![l].st = "failed"]
    /\ UNCHANGED <<pgStarted, serverVer, pgResolve, pgResolvedOk>>
    /\ UNCHANGED notPg

\* AlertPanel, rendered once loading is false: Resolve is clicked on a
\* displayed alert and handleResolve awaits resolveAlert(alertId).
ResolveClick ==
    /\ ~pgLoading
    /\ pgAlerts # <<>>
    /\ pgResolve # "flight"
    /\ pgResolve' = "flight"
    /\ UNCHANGED <<pgElements, pgAlerts, pgLoading, pgLoads, pgStarted, serverVer,
                   pgResolvedOk>>
    /\ UNCHANGED notPg

\* The PUT succeeded: handleResolve calls onRefresh(), which is loadData.
ResolveOk ==
    /\ pgResolve = "flight"
    /\ pgStarted < MaxLoads
    /\ pgResolve' = "ok"
    /\ pgResolvedOk' = pgResolvedOk + 1
    /\ pgStarted' = pgStarted + 1
    /\ pgLoads' = [pgLoads EXCEPT ![pgStarted + 1] = StartedLoad("resolve")]
    /\ UNCHANGED <<pgElements, pgAlerts, pgLoading, serverVer>>
    /\ UNCHANGED notPg

\* The PUT failed: handleResolve is in its catch.
ResolveFail ==
    /\ pgResolve = "flight"
    /\ pgResolve' = "failed"
    /\ IF refresh_after_failed_resolve /\ pgStarted < MaxLoads
       THEN /\ pgStarted' = pgStarted + 1
            /\ pgLoads' = [pgLoads EXCEPT ![pgStarted + 1] = StartedLoad("resolve")]
       ELSE UNCHANGED <<pgStarted, pgLoads>>
    /\ UNCHANGED <<pgElements, pgAlerts, pgLoading, serverVer, pgResolvedOk>>
    /\ UNCHANGED notPg

NextPage ==
    \/ ServerChanges
    \/ TimerFires
    \/ RefreshClick
    \/ \E l \in Loads, f \in {"e", "a"} : FetchOk(l, f)
    \/ \E l \in Loads, f \in {"e", "a"} : FetchFail(l, f)
    \/ \E l \in Loads : LoadFulfilled(l)
    \/ \E l \in Loads : LoadRejected(l)
    \/ ResolveClick
    \/ ResolveOk
    \/ ResolveFail

----------------------------------------------------------------------------
(* The alert panel as a function of its prop alerts: components/AlertPanel.tsx *)

\* What the field resolved of an alert holds: a boolean, or nothing when the
\* document has no such field.
ResolvedValues == {"true", "false", "undefined"}

\* The lists the panel is given: the alert at position i carries i as its _id.
AlertLists ==
    UNION {{[i \in 1..n |-> [id |-> i, resolved |-> r[i]]] : r \in [1..n -> ResolvedValues]} :
           n \in 0..MaxAlerts}

\* JavaScript's !x on these values.
Not(x) == x \in {"false", "undefined"}

\* A filter that keeps the alerts whose flag is the boolean false.
resolved_is_false(a) == a.resolved = "false"

\* a => !a.resolved
not_resolved(a) == Not(a.resolved)

\* alerts.filter(a => !a.resolved)
unresolvedAlerts(alerts) == SelectSeq(alerts, not_resolved)

\* Nothing was given to a panel yet.
ApQuiet ==
    /\ apPc = "props"
    /\ apAlerts = <<>>
    /\ apShown = <<>>
    /\ apCount = 0
    /\ apEmptyMsg = FALSE

\* AlertPanel is called with a list of alerts.
ApInit ==
    /\ apPc = "props"
    /\ apAlerts \in AlertLists
    /\ apShown = <<>>
    /\ apCount = 0
    /\ apEmptyMsg = FALSE

\* The body of AlertPanel: the filter, the header, one card per kept alert,
\* the message under the condition unresolvedAlerts.length === 0.
AlertPanelRender ==
    /\ apPc = "props"
    /\ apPc' = "rendered"
    /\ apShown' = unresolvedAlerts(apAlerts)
    /\ apCount' = Len(unresolvedAlerts(apAlerts))
    /\ apEmptyMsg' = (Len(unresolvedAlerts(apAlerts)) = 0)
    /\ UNCHANGED apAlerts
    /\ UNCHANGED notAp

NextAlertPanel == AlertPanelRender

----------------------------------------------------------------------------
(* Specifications *)

InitBatch == EpInit /\ FleetQuiet /\ BcInit /\ NdInit /\ QcInit /\ PgInit /\ ApQuiet

InitFleet == EpInit /\ FleetInit /\ BcInit /\ NdInit /\ QcInit /\ PgInit /\ ApQuiet

InitBroadcast == EpInit /\ FleetQuiet /\ BcInit /\ NdInit /\ QcInit /\ PgInit /\ ApQuiet

InitDevice == EpInit /\ FleetQuiet /\ BcInit /\ NdInit /\ QcInit /\ PgInit /\ ApQuiet

\* The quick check does not look at the status of the element: the inventories
\* are those of active devices, with and without credentials.
InitOnDemand ==
    /\ EpInit /\ FleetInit /\ BcInit /\ NdInit /\ QcInit /\ PgInit /\ ApQuiet
    /\ \A d \in Devices : inventory[d].active

SpecBatch == InitBatch /\ [][NextBatch]_vars

SpecFleet == InitFleet /\ [][NextFleet]_vars

SpecBroadcast == InitBroadcast /\ [][NextBroadcast]_vars

SpecDevice == InitDevice /\ [][NextDevice]_vars

SpecOnDemand == InitOnDemand /\ [][NextOnDemand]_vars

SpecRegistry == InitBroadcast /\ [][NextRegistry]_vars

InitPage == EpInit /\ FleetQuiet /\ BcInit /\ NdInit /\ QcInit /\ PgInit /\ ApQuiet

SpecPage == InitPage /\ [][NextPage]_vars

InitAlertPanel == EpInit /\ FleetQuiet /\ BcInit /\ NdInit /\ QcInit /\ PgInit /\ ApInit

SpecAlertPanel == InitAlertPanel /\ [][NextAlertPanel]_vars

\* ConnectHandler is a blocking library call that returns or raises: connect()
\* passes no timeout of its own, the ones that end the call are netmiko's
\* defaults.
SpecDeviceFair == SpecDevice /\ WF_vars(NdConnectOk \/ NdConnectRaise)

----------------------------------------------------------------------------
(* Claims *)

\* The entries of the pass's record that are about device d.
OutcomesOf(d) == {i \in 1..Len(passLog) : passLog[i].dev = d}

\* C1: a finished fleet pass holds exactly one outcome entry per device
\* attempted: as many entries as devices, one for an unreachable device too,
\* never zero and never two.
C1_OneOutcomePerDevice ==
    passPc = "done" =>
        /\ Len(passLog) = Len(elements)
        /\ \A d \in Range(elements) : Cardinality(OutcomesOf(d)) = 1

\* No send_command of the batch lost the session.
EpHealthy == \A i \in 1..Len(epSendLog) : epSendLog[i].outcome \in {"ok", "cmderr"}

\* The place of the first occurrence of command c in the batch.
FirstAt(c) == CHOOSE i \in 1..Len(epCmds) : epCmds[i] = c /\ \A j \in 1..(i - 1) : epCmds[j] # c

\* C2: on a healthy session every command of the batch is executed, in
\* order; a command that failed has a failure as its result, and the results
\* are in submission order.
C2_CommandFailureKeepsBatchGoing ==
    (epResponse = "ok" /\ EpHealthy) =>
        /\ Len(epSendLog) = Len(epCmds)
        /\ \A k \in 1..Len(epCmds) : epSendLog[k].cmd = epCmds[k]
        /\ \A k \in 1..Len(epCmds) :
               epSendLog[k].outcome = "cmderr" => epVals[epCmds[k]] = "err"
        /\ \A i, j \in 1..Len(epKeys) : i < j => FirstAt(epKeys[i]) < FirstAt(epKeys[j])

\* C3: once a command has made the session unusable, no later command of the
\* batch is executed on it: the send that lost the session is the last one.
C3_SessionFailureEndsBatch ==
    \A k \in 1..Len(epSendLog) : epSendLog[k].outcome = "dead" => Len(epSendLog) = k

\* C4: at most one scheduler-triggered pass is in flight, however long the
\* pass takes compared with the interval.
C4_AtMostOnePassInFlight ==
    /\ passesInFlight \in {0, 1}
    /\ passesInFlight = 1 => schedPc = "pass"

\* A second pass that has been in flight for longer than the interval.
C4_Witness == passesInFlight = 1 /\ passCount = 2 /\ sinceTrigger > Interval

\* The SkippedTick events the scheduler recorded.
SkippedTicks == {i \in 1..Len(schedLog) : schedLog[i] = "SkippedTick"}

\* C5: every interval that elapses while a pass is in flight is recorded as a
\* SkippedTick event.
C5_TickInFlightIsRecordedSkipped == Cardinality(SkippedTicks) = ticksInFlight

\* C6: during a fleet pass no more sessions are open at once than the
\* concurrency limit.
C6_OpenSessionsWithinLimit == Cardinality(OpenSessions) <= ConcurrencyLimit

\* The elements the for loop has gone past.
Passed == {elements[i] : i \in 1..(idx - 1)}

\* The devices the loop has dealt with: connect() was called on them, or their
\* credentials could not be read and the failure was printed.
Handled ==
    attempted \cup
        {d \in Range(elements) : inventory[d].creds = "null" /\ OutcomesOf(d) # {}}

\* C7: a connect failure or a command failure of one device never aborts the
\* pass: every device of the list is dealt with, and the pass is aborted only
\* when the device list could not be acquired (no device was attempted).
C7_DeviceFailureNeverAbortsPass ==
    /\ passPc = "done" => Handled = Range(elements)
    /\ passPc \in {"loop", "execute", "insert"} => Passed \subseteq Handled
    /\ passPc = "aborted" => attempted = {} /\ elements = <<>>

\* A finished pass over three devices: one unreachable, one whose command
\* failed and one backed up.
C7_Witness ==
    /\ passPc = "done"
    /\ Len(elements) = 3
    /\ attempted = Range(elements)
    /\ \E d \in attempted : ~sess[d].connection
    /\ \E i \in 1..Len(passLog) : passLog[i].kind = "failed"
    /\ \E i \in 1..Len(passLog) : passLog[i].kind = "backed_up"

\* C8: a stalled or disconnected subscriber never keeps the event from the
\* others: a broadcast that waits on one connection has served every other
\* reading subscriber, and so has a broadcast that has ended.
C8_OthersAreServed ==
    /\ (bPc = "blocked" /\ ~bRegChanged) =>
           \A s \in bTargets \ {bCur} : subState[s] = "live" => Delivered(s, bMsg)
    /\ (bPc = "idle" /\ bMsg > 0 /\ ~bRegChanged) =>
           \A s \in bTargets : subState[s] = "live" => Delivered(s, bMsg)

\* The Dropped marker, among messages numbered from 1.
IsDroppedMarker(m) == m = 0

\* C9: no pending buffer exceeds its bound, and a subscriber whose buffer a
\* publish found full has a Dropped marker in place of its oldest event.
C9_OverflowLeavesDroppedMarker ==
    \A s \in Subs :
        /\ Len(inbox[s]) <= BufCap
        /\ fullHit[s] => \E m \in Range(inbox[s]) \cup got[s] : IsDroppedMarker(m)

\* C10: a publish that has ended has delivered the event to every subscriber
\* registered when it started (and still registered, with its connection not
\* closed), and to none unsubscribed before it.
C10_DeliveredToRegistered ==
    (bPc = "idle" /\ bMsg > 0) =>
        /\ \A s \in bTargets \cap Range(registry) :
               (subState[s] # "gone" /\ ~bRegChanged) => Delivered(s, bMsg)
        /\ \A s \in bLeftBefore : ~Delivered(s, bMsg)

\* The state of the handle of section 4.1, read off the NetworkDevice object:
\* the method in progress, else the state of its connection.
HandleState ==
    CASE ndPc = "connecting" -> "Connecting"
      [] ndPc \in {"executing", "configuring"} -> "Executing"
      [] ndDev.transport = "open" -> "Connected"
      [] ndDev.transport = "dead" -> "Failed"
      [] OTHER -> "Disconnected"

\* C11: run on a handle that is not Connected (never opened, already closed,
\* failed) attempts no I/O: every send_command the object issues finds its
\* connection open.
C11_RunOffConnectedDoesNoIO ==
    \A i \in 1..Len(ndLog) :
        ndLog[i].op = "send_command" => ndLog[i].pre = "open"

\* C12: a second close has no further effect: disconnect() never acts on a
\* connection that is already closed.
C12_SecondCloseDoesNotAct ==
    \A i \in 1..Len(ndLog) :
        ndLog[i].op = "disconnect" => ndLog[i].pre # "closed"

\* C13: every session a pass opened is closed before the pass is over, on
\* every path: a finished pass leaves no device with a connection it made and
\* did not close.
C13_OpenedSessionsAreClosed ==
    passPc = "done" =>
        \A d \in attempted : sess[d].connection => sess[d].transport = "closed"

\* The last method call was a run that went as far as send_command and has
\* returned: ndLast holds the outcome of send_command.
RunReturned == ndLast \in {"ok", "cmderr", "timeout", "dead", "ioerr"}

\* C14: once run has returned the session is not Executing: after every run
\* the session is Connected or Failed.
C14_AfterRunConnectedOrFailed ==
    RunReturned => HandleState \in {"Connected", "Failed"}

C16_TimedOutSessionNotReused ==
    \A k \in 1..Len(epSendLog) :
        epSendLog[k].outcome = "timeout" => k = Len(epSendLog)

\* C17: a stop while a pass is in flight does not cancel the pass: whenever
\* the scheduler has stopped, the pass it had in flight has processed its
\* devices to the end.
C17_StopLetsPassFinish ==
    schedPc = "stopped" => passPc \in {"none", "done"}

\* C18: when the deadline of the pass has elapsed before all devices are
\* processed, the pass is finalized: it is over, and every device of its list
\* has an outcome in its record (timed out for those that were in flight).
C18_DeadlineFinalizesPass ==
    (schedPc = "pass" /\ sinceTrigger > PassDeadline) =>
        /\ passPc \in {"done", "aborted"}
        /\ \A i \in 1..Len(elements) : OutcomesOf(elements[i]) # {}

\* Devices whose document holds no credentials.
WithoutCredentials == {d \in Devices : inventory[d].creds # "stored"}

C21_PartialConfigIsReportedFailed ==
    ndReport = "partial" => ndLast = "config_raised"

\* The flows that connected, ran or closed through the object h.
UsersOf(h) == {p[2] : p \in {q \in handleUse : q[1] = h}}

\* C22: a session handle is owned by one worker for its whole lifetime: no
\* NetworkDevice object is ever connected, run or closed through by both the
\* fleet pass and the quick check, also when both work on the same device.
C22_HandleHasOneOwner ==
    \A p \in handleUse : Cardinality(UsersOf(p[1])) = 1

\* The quick check and the fleet pass hold a connected session to the same
\* device at the same moment.
C22_Witness ==
    /\ qcPc = "exec"
    /\ passPc = "execute"
    /\ elements[idx] = qcElem
    /\ qcDevice.transport = "open"
    /\ sess[qcElem].transport = "open"

\* The moves of section 4.1. The model has no state between the call of close
\* and its end, so Connected or Failed to Disconnected stands for the close;
\* a connect that failed is back at Disconnected.
LifecycleMoves ==
    {<<"Disconnected", "Connecting">>, <<"Connecting", "Connected">>,
     <<"Connecting", "Disconnected">>, <<"Connecting", "Failed">>,
     <<"Connected", "Executing">>, <<"Executing", "Connected">>,
     <<"Executing", "Failed">>, <<"Connected", "Failed">>,
     <<"Connected", "Disconnected">>, <<"Failed", "Disconnected">>}

\* C23: a session handle only moves along the transitions of its lifecycle:
\* it never reaches Executing from Disconnected and never leaves Failed except
\* through close.
C23_OnlyLifecycleMoves ==
    [][HandleState' # HandleState => <<HandleState, HandleState'>> \in LifecycleMoves]_vars

\* C24: registrations and removals that interleave with a publish do not
\* disturb it: a broadcast that returned has delivered the event to every
\* connection that was registered from its start to its end.
C24_RegistryChangesDoNotDisturbPublish ==
    (bPc = "idle" /\ bOutcome = "returned") =>
        \A s \in bTargets \cap Range(registry) : Delivered(s, bMsg)

\* C25: on a session that does not fail the batch returns one result per
\* command, also for a command text that occurs more than once: N entries for
\* N commands, the i-th entry belonging to the i-th command.
C25_OneResultPerCommand ==
    (epResponse = "ok" /\ EpHealthy) =>
        /\ Len(DictItems(epKeys, epVals)) = Len(epCmds)
        /\ \A i \in 1..Len(epKeys) : DictItems(epKeys, epVals)[i][1] = epCmds[i]

\* C26: the quick check persists metric records only after the session
\* connected and the whole batch ran; a connect failure writes none, a check
\* that answered success has written one record per result, and the session
\* is closed when the handler is done, in both cases.
C26_MetricsOnlyAfterBatch ==
    /\ qcStored > 0 => (qcDevice.connection /\ qcIdx = QuickCommands)
    /\ (qcMade /\ ~qcDevice.connection) => qcStored = 0
    /\ (qcPc = "done" /\ qcResponse = "ok") => qcStored = QuickCommands
    /\ qcPc = "done" => qcDevice.transport \in {"none", "closed"}

\* A quick check that answered success, with its records written and its
\* session closed.
C26_Witness ==
    /\ qcPc = "done"
    /\ qcResponse = "ok"
    /\ qcStored = QuickCommands
    /\ qcDevice.transport = "closed"

\* Load l ends in this step: its finally has run.
LoadEnds(l) == pgLoads[l].st = "flight" /\ pgLoads'[l].st \in {"done", "failed"}

\* C27: a load changes elements and alerts together and only when both of its
\* fetches succeeded, to what they returned; a load of which a fetch failed
\* leaves both as they were; loading is false when a load ends and never goes
\* back to true.
C27_LoadUpdatesBothOrNeither ==
    [][/\ (pgElements' # pgElements \/ pgAlerts' # pgAlerts) =>
              \E l \in Loads : LoadEnds(l) /\ AllFulfilled(pgLoads[l])
       /\ \A l \in Loads : LoadEnds(l) =>
              /\ ~pgLoading'
              /\ AllFulfilled(pgLoads[l]) =>
                     /\ pgElements' = DataOrEmpty(pgLoads[l].e)
                     /\ pgAlerts' = DataOrEmpty(pgLoads[l].a)
              /\ ~AllFulfilled(pgLoads[l]) =>
                     /\ pgElements' = pgElements
                     /\ pgAlerts' = pgAlerts
       /\ ~pgLoading => ~pgLoading']_vars

\* A load whose elements came back and whose alerts failed has ended after a
\* load that displayed data: the data of the earlier load is still displayed.
C27_Witness ==
    \E l, k \in Loads :
        /\ pgLoads[l].st = "failed"
        /\ pgLoads[l].e.st = "ok"
        /\ pgLoads[l].e.has
        /\ pgLoads[l].a.st = "failed"
        /\ pgLoads[k].st = "done"
        /\ pgLoads[k].e.has
        /\ pgElements = DataOrEmpty(pgLoads[k].e)
        /\ pgElements # DataOrEmpty(pgLoads[l].e)
        /\ ~pgLoading

\* C28: once no load is in flight, what is displayed is what the load started
\* last returned.
C28_LastStartedLoadIsDisplayed ==
    ((\A l \in Loads : pgLoads[l].st # "flight") /\ pgLoads[pgStarted].st = "done") =>
        /\ pgElements = DataOrEmpty(pgLoads[pgStarted].e)
        /\ pgAlerts = DataOrEmpty(pgLoads[pgStarted].a)

\* A load started by handleResolve appears in this step.
RefreshByResolve == \E l \in Loads : pgLoads[l].by # "resolve" /\ pgLoads'[l].by = "resolve"

\* C29: handleResolve starts a refresh only in the step in which its resolve
\* request succeeds; a resolve request that fails starts no load and leaves the
\* displayed alerts as they are.
C29_RefreshOnlyAfterResolveSucceeded ==
    [][/\ RefreshByResolve =>
              (pgResolve = "flight" /\ pgResolvedOk' = pgResolvedOk + 1)
       /\ (pgResolve = "flight" /\ pgResolve' = "failed") =>
              /\ pgStarted' = pgStarted
              /\ pgLoads' = pgLoads
              /\ pgAlerts' = pgAlerts]_vars

\* A resolve request has failed, none has succeeded, and the only load is
\* still the one of the mount.
C29_Witness ==
    /\ pgResolve = "failed"
    /\ pgResolvedOk = 0
    /\ pgStarted = 1
    /\ pgLoads[1].st = "done"
    /\ pgAlerts # <<>>

\* C30: the panel displays exactly the alerts of its list whose resolved flag
\* is not set, in the order of the list; the header count is the number
\* displayed; "No active alerts" is rendered exactly when that number is zero.
C30_PanelShowsUnresolvedInOrder ==
    apPc = "rendered" =>
        /\ \A i \in 1..Len(apAlerts) :
               (apAlerts[i].resolved # "true") <=>
                   (\E j \in 1..Len(apShown) : apShown[j] = apAlerts[i])
        /\ \A j \in 1..Len(apShown) : apShown[j] \in Range(apAlerts)
        /\ \A j, k \in 1..Len(apShown) : j < k => apShown[j].id < apShown[k].id
        /\ apCount = Len(apShown)
        /\ apEmptyMsg <=> (apCount = 0)

\* A rendered list that holds a resolved alert between unresolved ones, one of
\* them without the field.
C30_Witness ==
    /\ apPc = "rendered"
    /\ Len(apAlerts) = 3
    /\ apAlerts[1].resolved = "undefined"
    /\ apAlerts[2].resolved = "true"
    /\ apAlerts[3].resolved = "false"
    /\ apShown = <<apAlerts[1], apAlerts[3]>>
    /\ apCount = 2
    /\ ~apEmptyMsg

====
